---- MODULE Spec2Model ----
(***************************************************************************)
(* Candidate matcher: filter builder, hybrid search and merge, single-job  *)
(* endpoints and batch orchestration, as implemented in new_main.py        *)
(* (Flask), api.py (FastAPI) and pages/Search_candidates.py (Streamlit).   *)
(*                                                                         *)
(* Text is modelled as a sequence of one-character strings, so that        *)
(* str.lower() and str.strip() are computed and not assumed.               *)
(* Scores are integers in units of 1/ScoreDenom; a combined score is an    *)
(* integer in units of 1/(10*ScoreDenom), so that 0.6*v + 0.4*s is the     *)
(* exact integer 6*v + 4*s.                                                *)
(***************************************************************************)
EXTENDS Integers, Sequences, FiniteSets, TLC

VARIABLES
    \* ---- filter builder ----
    location,   \* the location argument of build_filter
    level,      \* the level argument of build_filter
    filt,       \* <<>> before the call, <<f>> with the returned dict after it
    fimpl,      \* which build_filter ran: "none", "new_main", "api", "pages"
    \* ---- one search, one single-job request ----
    sreq,       \* the request (Flask body, JDRequest, or run_search arguments)
    simpl,      \* which handler ran: "none", "new_main", "api", "pages"
    ext,        \* the outcome of each external call the handler issued
    ret,        \* <<>>, or <<r>> with what the search function returned
    resp,       \* <<>>, or <<r>> with the HTTP response of the endpoint
    tmp_file,   \* TRUE while the downloaded spreadsheet's temporary file exists
    \* ---- one batch request ----
    breq,       \* the request (Flask body or uploaded sheet)
    bimpl,      \* which batch handler runs: "none", "new_main", "api", "pages"
    pool,       \* max_workers of the thread pool, 0 while there is none
    task,       \* per job: "none" (not submitted), "queued", "running", "done"
    tout,       \* per job: the outcomes of the external calls of its search
    tres,       \* per job: <<>>, or <<r>> with what its search returned
    collected,  \* the jobs whose future the collecting loop has taken
    results,    \* the result entries, in the order they were appended
    bpc,        \* "idle", "collecting", "done", "aborted"
    bresp,      \* <<>>, or <<r>> with the HTTP response
    btmp,       \* TRUE while the batch's temporary file exists
    \* ---- the merge step run on its own ----
    mhits,      \* the dense and the sparse hit list given to the merge
    mimpl,      \* which merge runs: "none", "new_main", "api", "pages"
    mruns,      \* the outputs of the runs of the merge so far
    \* ---- the upload of candidate profiles (pages/upload_batch.py) ----
    urows,      \* the rows of the uploaded spreadsheet, each with its resume
    upos,       \* the number of rows upsert_candidate was called for
    vector_ups, \* the upsert_records calls made on the dense index, in order
    sparse_ups, \* the upsert_records calls made on the sparse index, in order
    umsgs,      \* the warnings and errors shown, in order
    upc,        \* "idle", "running", "done", "aborted"
    \* ---- the build ----
    quicksort   \* how the build's quicksort leaves rows of equal sort key:
                \* "kept" in their order or "reversed"

filterVars == <<location, level, filt, fimpl>>

searchVars == <<sreq, simpl, ext, ret, resp, tmp_file>>

batchVars == <<breq, bimpl, pool, task, tout, tres, collected, results, bpc,
               bresp, btmp>>

mergeVars == <<mhits, mimpl, mruns>>

\* what the handlers of the filter, search and batch parts never change
upsertVars == <<urows, upos, vector_ups, sparse_ups, umsgs, upc>>

extraVars == <<mergeVars, upsertVars, quicksort>>

vars == <<filterVars, searchVars, batchVars, extraVars>>

(***************************************************************************)
(* Text                                                                    *)
(***************************************************************************)
UpperAlpha == <<"A","B","C","D","E","F","G","H","I","J","K","L","M",
                "N","O","P","Q","R","S","T","U","V","W","X","Y","Z">>
LowerAlpha == <<"a","b","c","d","e","f","g","h","i","j","k","l","m",
                "n","o","p","q","r","s","t","u","v","w","x","y","z">>

Whitespace == {" ", "\t", "\n"}

\* str.lower() on one character
lower_char(c) ==
    IF \E i \in 1..26 : UpperAlpha[i] = c
    THEN LowerAlpha[CHOOSE i \in 1..26 : UpperAlpha[i] = c]
    ELSE c

\* str.lower()
lower(s) == [i \in 1..Len(s) |-> lower_char(s[i])]

RECURSIVE lstrip(_)
lstrip(s) ==
    IF s # <<>> /\ Head(s) \in Whitespace THEN lstrip(Tail(s)) ELSE s

RECURSIVE rstrip(_)
rstrip(s) ==
    IF s # <<>> /\ s[Len(s)] \in Whitespace
    THEN rstrip(SubSeq(s, 1, Len(s) - 1))
    ELSE s

\* str.strip()
strip(s) == rstrip(lstrip(s))

(***************************************************************************)
(* Level labels and the inputs of build_filter                             *)
(***************************************************************************)
W_junior       == <<"j","u","n","i","o","r">>
W_entry        == <<"e","n","t","r","y">>
W_mid          == <<"m","i","d">>
W_middle       == <<"m","i","d","d","l","e">>
W_intermediate == <<"i","n","t","e","r","m","e","d","i","a","t","e">>
W_senior       == <<"s","e","n","i","o","r">>
W_sr           == <<"s","r">>
W_unknownlabel == <<"u","n","k","n","o","w","n","l","a","b","e","l">>
W_lead         == <<"l","e","a","d">>
W_jr           == <<"j","r">>
W_seniors      == <<"s","e","n","i","o","r","s">>
W_mid_level    == <<"m","i","d"," ","l","e","v","e","l">>
W_sen_ior      == <<"s","e","n"," ","i","o","r">>

JuniorLabels == {W_junior, W_entry}
MidLabels    == {W_mid, W_middle, W_intermediate}
SeniorLabels == {W_senior, W_sr}

BaseLabels ==
    JuniorLabels \cup MidLabels \cup SeniorLabels \cup
    {<<>>, W_unknownlabel, W_lead, W_jr, W_seniors, W_mid_level, W_sen_ior}

upper_char(c) ==
    IF \E i \in 1..26 : LowerAlpha[i] = c
    THEN UpperAlpha[CHOOSE i \in 1..26 : LowerAlpha[i] = c]
    ELSE c

Upper(s) == [i \in 1..Len(s) |-> upper_char(s[i])]

Capitalized(s) == [i \in 1..Len(s) |-> IF i = 1 THEN upper_char(s[i]) ELSE s[i]]

CaseVariants(s) == {s, Upper(s), Capitalized(s)}

LeftPads  == {<<>>, <<" ">>}
RightPads == {<<>>, <<" ">>, <<"\t", "\n">>}

Levels ==
    { l \o v \o r : l \in LeftPads, r \in RightPads,
                    v \in UNION { CaseVariants(w) : w \in BaseLabels } }

Locations ==
    { <<"p","u","n","e">>, <<"P","u","n","e">>, <<"D","E","L","H","I">>,
      <<"d","e","l","h","i">>, <<" ","G","o","a"," ">> }

(***************************************************************************)
(* build_filter, three copies                                              *)
(***************************************************************************)
\* build_filter of new_main.py with the senior bound off by one ($gt for $gte)
build_filter_senior_gt(loc, lev) ==
    LET f   == [location |-> ("$eq" :> lower(loc))]
        lvl == lower(strip(lev))
    IN  IF lvl \in {W_junior, W_entry}
        THEN f @@ [experience |-> ("$lte" :> 2)]
        ELSE IF lvl \in {W_mid, W_middle, W_intermediate}
        THEN f @@ [experience |-> ("$gt" :> 2) @@ ("$lt" :> 5)]
        ELSE IF lvl \in {W_senior, W_sr}
        THEN f @@ [experience |-> ("$gt" :> 5)]
        ELSE f

\* new_main.py
build_filter(loc, lev) ==
    LET f   == [location |-> ("$eq" :> lower(loc))]
        lvl == lower(strip(lev))
    IN  IF lvl \in {W_junior, W_entry}
        THEN f @@ [experience |-> ("$lte" :> 2)]
        ELSE IF lvl \in {W_mid, W_middle, W_intermediate}
        THEN f @@ [experience |-> ("$gt" :> 2) @@ ("$lt" :> 5)]
        ELSE IF lvl \in {W_senior, W_sr}
        THEN f @@ [experience |-> ("$gte" :> 5)]
        ELSE f

\* build_filter of api.py comparing the label without lower()
api_build_filter_no_lower(loc, lev) ==
    LET f   == [location |-> ("$eq" :> loc)]
        lvl == strip(lev)
    IN  IF lvl = W_junior
        THEN f @@ [experience |-> ("$lte" :> 1)]
        ELSE IF lvl = W_mid
        THEN f @@ [experience |-> ("$gt" :> 1) @@ ("$lt" :> 3)]
        ELSE f @@ [experience |-> ("$gt" :> 3)]

\* api.py
api_build_filter(loc, lev) ==
    LET f   == [location |-> ("$eq" :> loc)]
        lvl == lower(strip(lev))
    IN  IF lvl = W_junior
        THEN f @@ [experience |-> ("$lte" :> 1)]
        ELSE IF lvl = W_mid
        THEN f @@ [experience |-> ("$gt" :> 1) @@ ("$lt" :> 3)]
        ELSE f @@ [experience |-> ("$gt" :> 3)]

\* pages/Search_candidates.py
pages_build_filter(loc, lev) ==
    LET f   == [location |-> ("$eq" :> loc)]
        lvl == lower(strip(lev))
    IN  IF lvl = W_junior
        THEN f @@ [experience |-> ("$lte" :> 1)]
        ELSE IF lvl = W_mid
        THEN f @@ [experience |-> ("$gt" :> 1) @@ ("$lt" :> 3)]
        ELSE f @@ [experience |-> ("$gt" :> 3)]

FilterIdle ==
    /\ location = <<>>
    /\ level = <<>>
    /\ filt = <<>>
    /\ fimpl = "none"

(***************************************************************************)
(* Scores and rounding                                                     *)
(***************************************************************************)
\* round(x, 3) keeps this many decimals (new_main.py:261-263)
NDIGITS == 3

RECURSIVE Pow10(_)
Pow10(n) == IF n = 0 THEN 1 ELSE 10 * Pow10(n - 1)

\* a score v stands for v / ScoreDenom: one decimal more than round() keeps
ScoreDenom == Pow10(NDIGITS + 1)

\* the weights 0.6 and 0.4 of the combined score, in tenths
VEC_WEIGHT == 6
SP_WEIGHT  == 4

\* a combined score c stands for c / CombinedDenom
CombinedDenom == 10 * ScoreDenom

\* round(x, NDIGITS) of the value x / denom, in the same unit: the nearest
\* multiple of 10^-NDIGITS, a tie going to the even one
round(x, denom) ==
    LET u == denom \div Pow10(NDIGITS)
        q == x \div u
        r == x % u
    IN  IF 2 * r < u THEN q * u
        ELSE IF 2 * r > u THEN (q + 1) * u
        ELSE IF q % 2 = 0 THEN q * u ELSE (q + 1) * u

(***************************************************************************)
(* The external services: each call either returns or raises.  An outcome  *)
(* is [called, ok, text, hits]: text is what the text-generation call      *)
(* returned, hits the hit list of a similarity query or the rows of the    *)
(* candidate spreadsheet.                                                  *)
(***************************************************************************)
NotCalled == [called |-> FALSE, ok |-> FALSE, text |-> <<>>, hits |-> <<>>]
Raises    == [called |-> TRUE,  ok |-> FALSE, text |-> <<>>, hits |-> <<>>]
Says(t)   == [called |-> TRUE,  ok |-> TRUE,  text |-> t,    hits |-> <<>>]
Gives(h)  == [called |-> TRUE,  ok |-> TRUE,  text |-> <<>>, hits |-> h]

NoCalls == [gem |-> NotCalled, vec |-> NotCalled, sp |-> NotCalled,
            dl |-> NotCalled, xl |-> NotCalled]

\* the longest hit list a similarity query returns in the model
MaxHits == 2

Ids == {"E1", "E2"}

\* the metadata a candidate is stored with: the dense namespace holds every
\* candidate with the current metadata, the sparse namespace may hold a
\* record written at another time, differing in experience or in location
DenseMetas == { [location |-> "pune", experience |-> 3] }

SparseMetas == { [location |-> "pune",  experience |-> 3],
                 [location |-> "pune",  experience |-> 4],
                 [location |-> "delhi", experience |-> 3] }

DenseScores  == {7000, 9000}
SparseScores == {4000, 7000, 7001}

Hits(scores, metas) ==
    { [_id |-> i, _score |-> s, fields |-> m] :
          i \in Ids, s \in scores, m \in metas }

\* what a similarity query can return: at most MaxHits hits, no identity
\* twice, in the backend's order of descending score
HitLists(hits) ==
    UNION { { h \in [1..n -> hits] :
                \A i, j \in 1..n :
                    i < j => /\ h[i]._id # h[j]._id
                             /\ h[i]._score >= h[j]._score }
            : n \in 0..MaxHits }

JD == <<"j", "d">>

GemTexts == { <<>>, <<" ", "g", "o", ",", " ", "s", "q", "l", "\n">> }

GemOutcomes == { Says(t) : t \in GemTexts } \cup {Raises}
VecOutcomes == { Gives(h) : h \in HitLists(Hits(DenseScores, DenseMetas)) } \cup {Raises}
SpOutcomes  == { Gives(h) : h \in HitLists(Hits(SparseScores, SparseMetas)) } \cup {Raises}

\* the candidate spreadsheet: E1 is in it, E2 is not
CandidateSheet ==
    << [EmployeeID |-> "E1", Name |-> "Asha", Skills |-> "go, sql"],
       [EmployeeID |-> "E9", Name |-> "Ravi", Skills |-> "java"] >>

DlOutcomes == {Gives(<<>>), Raises}
XlOutcomes == {Gives(CandidateSheet), Raises}

VECTOR_NAMESPACE == "resume-experience"
SPARSE_NAMESPACE == "resume-skills"

GenerateCall(contents) == [svc |-> "generate", text |-> contents]

SearchCall(svc, namespace, text, top_k, flt) ==
    [svc |-> svc, namespace |-> namespace, text |-> text,
     top_k |-> top_k, filter |-> flt]

(***************************************************************************)
(* pandas: DataFrames are sequences of rows, a row a function of columns   *)
(***************************************************************************)
\* {"id": h["_id"], "vec_score": h["_score"], **h.get("fields", {})}
vec_row(h) == [id |-> h._id, vec_score |-> h._score] @@ h.fields

\* {"id": h["_id"], "sp_score": h["_score"], **h.get("fields", {})}
sp_row(h) == [id |-> h._id, sp_score |-> h._score] @@ h.fields

DataFrame(hits, row(_)) == [i \in 1..Len(hits) |-> row(hits[i])]

SuffixX == [location |-> "location_x", experience |-> "experience_x"]
SuffixY == [location |-> "location_y", experience |-> "experience_y"]

\* one row of pd.merge: the key columns once, the other columns of both
\* sides, a column both sides have getting the suffixes _x and _y
merged_row(l, r, on) ==
    LET ov == (DOMAIN l \cap DOMAIN r) \ on IN
    [c \in DOMAIN l \ ov |-> l[c]]
    @@ [c \in DOMAIN r \ (on \cup ov) |-> r[c]]
    @@ [c \in { SuffixX[o] : o \in ov } |->
            l[CHOOSE o \in ov : SuffixX[o] = c]]
    @@ [c \in { SuffixY[o] : o \in ov } |->
            r[CHOOSE o \in ov : SuffixY[o] = c]]

\* pd.merge with how="left": a left row without a match is kept, its
\* right-hand score filled in as 0
RECURSIVE pd_merge_left(_, _, _)
pd_merge_left(left, right, on) ==
    IF left = <<>> THEN <<>>
    ELSE LET l == Head(left)
             m == SelectSeq(right, LAMBDA r : \A c \in on : l[c] = r[c])
         IN  (IF m = <<>>
              THEN <<l @@ [sp_score |-> 0]>>
              ELSE [j \in 1..Len(m) |-> merged_row(l, m[j], on)])
             \o pd_merge_left(Tail(left), right, on)

\* pd.merge(left, right, on=on, how="inner"): for each left row in order,
\* the right rows with equal key columns in order
RECURSIVE pd_merge(_, _, _)
pd_merge(left, right, on) ==
    IF left = <<>> THEN <<>>
    ELSE LET l == Head(left)
             m == SelectSeq(right, LAMBDA r : \A c \in on : l[c] = r[c])
         IN  [j \in 1..Len(m) |-> merged_row(l, m[j], on)]
             \o pd_merge(Tail(left), right, on)

\* how a build's quicksort can leave rows of equal sort key
QuicksortTies == {"kept", "reversed"}

\* DataFrame.sort_values(..., ascending=False): rows in descending order of
\* the sort key.  Sorting on several columns is a stable lexsort: rows of
\* equal keys keep their order.  Sorting on one column is the default
\* kind="quicksort", which pandas documents as not stable: the order of
\* rows of equal key is the build's, the same on every call.
sort_values(df, Gt(_, _), stable) ==
    LET n == Len(df)
        before(j, i) == IF stable \/ quicksort = "kept" THEN j < i ELSE j > i
        pos(i) == 1 + Cardinality({ j \in 1..n :
                          \/ Gt(df[j], df[i])
                          \/ ~Gt(df[i], df[j]) /\ before(j, i) })
    IN  [p \in 1..n |-> df[CHOOSE i \in 1..n : pos(i) = p]]

by_combined_score(a, b) == a.combined_score > b.combined_score

by_vec_score_sp_score(a, b) ==
    \/ a.vec_score > b.vec_score
    \/ a.vec_score = b.vec_score /\ a.sp_score > b.sp_score

\* df["combined_score"] = df["vec_score"] * 0.6 + df["sp_score"] * 0.4
with_combined_score(df) ==
    [i \in 1..Len(df) |->
        df[i] @@ [combined_score |->
                    VEC_WEIGHT * df[i].vec_score + SP_WEIGHT * df[i].sp_score]]

\* joining on the identity alone
JoinKeys_id_only == {"id"}

JoinKeys == {"id", "location", "experience"}

(***************************************************************************)
(* The search functions.  Each takes the outcomes of the external calls    *)
(* and returns [raised, rows, skills, calls], calls being the external     *)
(* calls it issued, in order.                                              *)
(***************************************************************************)
Return(rows, skills, calls) ==
    [raised |-> FALSE, rows |-> rows, skills |-> skills, calls |-> calls]

Raise(calls) ==
    [raised |-> TRUE, rows |-> <<>>, skills |-> <<>>, calls |-> calls]

\* new_main.py
extract_skills_with_gemini(gem) ==
    IF gem.ok THEN strip(gem.text) ELSE <<>>

\* a merge whose output order depends on the call: every second call
\* returns the rows in the opposite order
merge_candidates_by_call(df_v, df_s) ==
    LET out == IF df_v = <<>> /\ df_s = <<>> THEN <<>>
               ELSE IF df_v = <<>> THEN df_s
               ELSE IF df_s = <<>> THEN df_v
               ELSE sort_values(
                        with_combined_score(pd_merge(df_v, df_s, JoinKeys)),
                        by_combined_score, FALSE)
    IN  IF Len(mruns) % 2 = 0 THEN out
        ELSE [i \in 1..Len(out) |-> out[Len(out) + 1 - i]]

\* new_main.py:141-166, from the two frames to the frame returned
merge_candidates(df_v, df_s) ==
    IF df_v = <<>> /\ df_s = <<>> THEN <<>>
    ELSE IF df_v = <<>> THEN df_s
    ELSE IF df_s = <<>> THEN df_v
    ELSE sort_values(with_combined_score(pd_merge(df_v, df_s, JoinKeys)),
                     by_combined_score, FALSE)

\* api.py:82-90, from the two frames to the records returned
api_merge_candidates(df_v, df_s) ==
    IF df_v = <<>> \/ df_s = <<>> THEN <<>>
    ELSE sort_values(pd_merge(df_v, df_s, JoinKeys),
                     by_vec_score_sp_score, TRUE)

\* Search_candidates.py:73-77, from the two frames to the frame returned
pages_merge_candidates(df_v, df_s) ==
    IF df_v = <<>> \/ df_s = <<>> THEN <<>>
    ELSE sort_values(pd_merge(df_v, df_s, JoinKeys),
                     by_vec_score_sp_score, TRUE)

\* a search that issues the dense query a second time when it raised
run_candidate_search_retry(job_description, metadata_filter, top_k, gem, vec, sp) ==
    LET skills_csv == extract_skills_with_gemini(gem)
        dense == SearchCall("dense", VECTOR_NAMESPACE, job_description,
                            top_k, metadata_filter)
        c1 == <<GenerateCall(job_description)>>
        c2 == c1 \o <<dense>>
        c3 == c2 \o <<SearchCall("sparse", SPARSE_NAMESPACE, skills_csv,
                                 top_k, metadata_filter)>>
    IN  IF ~vec.ok THEN Return(<<>>, <<>>, c2 \o <<dense>>)
        ELSE IF ~sp.ok THEN Return(<<>>, <<>>, c3)
        ELSE Return(merge_candidates(DataFrame(vec.hits, vec_row),
                                     DataFrame(sp.hits, sp_row)),
                    skills_csv, c3)

\* new_main.py
run_candidate_search(job_description, metadata_filter, top_k, gem, vec, sp) ==
    LET skills_csv == extract_skills_with_gemini(gem)
        c1 == <<GenerateCall(job_description)>>
        c2 == c1 \o <<SearchCall("dense", VECTOR_NAMESPACE, job_description,
                                 top_k, metadata_filter)>>
        c3 == c2 \o <<SearchCall("sparse", SPARSE_NAMESPACE, skills_csv,
                                 top_k, metadata_filter)>>
    IN  IF ~vec.ok THEN Return(<<>>, <<>>, c2)
        ELSE IF ~sp.ok THEN Return(<<>>, <<>>, c3)
        ELSE Return(merge_candidates(DataFrame(vec.hits, vec_row),
                                     DataFrame(sp.hits, sp_row)),
                    skills_csv, c3)

\* api.py
api_run_search(jd_text, md_filter, top_k, gem, vec, sp) ==
    LET skills_csv == strip(gem.text)
        c1 == <<GenerateCall(jd_text)>>
        c2 == c1 \o <<SearchCall("dense", VECTOR_NAMESPACE, jd_text,
                                 top_k, md_filter)>>
        c3 == c2 \o <<SearchCall("sparse", SPARSE_NAMESPACE, skills_csv,
                                 top_k, md_filter)>>
    IN  IF ~gem.ok THEN Raise(c1)
        ELSE IF ~vec.ok THEN Raise(c2)
        ELSE IF ~sp.ok THEN Raise(c3)
        ELSE Return(api_merge_candidates(DataFrame(vec.hits, vec_row),
                                         DataFrame(sp.hits, sp_row)),
                    skills_csv, c3)

\* pages/Search_candidates.py
pages_run_search(jd_text, md_filter, top_k, gem, vec, sp) ==
    LET skills_csv == strip(gem.text)
        c1 == <<GenerateCall(jd_text)>>
        c2 == c1 \o <<SearchCall("dense", VECTOR_NAMESPACE, jd_text,
                                 top_k, md_filter)>>
        c3 == c2 \o <<SearchCall("sparse", SPARSE_NAMESPACE, skills_csv,
                                 top_k, md_filter)>>
    IN  IF ~gem.ok THEN Raise(c1)
        ELSE IF ~vec.ok THEN Raise(c2)
        ELSE IF ~sp.ok THEN Raise(c3)
        ELSE Return(pages_merge_candidates(DataFrame(vec.hits, vec_row),
                                           DataFrame(sp.hits, sp_row)),
                    skills_csv, c3)

(***************************************************************************)
(* The single-job endpoints                                                *)
(***************************************************************************)
\* the last n entries instead of the first n
Take_tail(seq, n) ==
    SubSeq(seq, IF Len(seq) < n THEN 1 ELSE Len(seq) - n + 1, Len(seq))

Take(seq, n) == SubSeq(seq, 1, IF Len(seq) < n THEN Len(seq) ELSE n)

Issued(calls, svc) == \E i \in 1..Len(calls) : calls[i].svc = svc

\* what a handler returns to the model: the response, what the search
\* function returned (if it ran), the external calls issued and whether the
\* temporary file is left behind
Out(status, body, r, calls, tmp) ==
    [status |-> status, body |-> body, ret |-> r, calls |-> calls,
     tmp_file |-> tmp]

REQUIRED_FIELDS == {"id", "job_title", "rolelevel", "location", "role_summary"}

\* top_k of the single-job searches (new_main.py:226, api.py:53)
TOP_K == 50
\* candidates[:20] (new_main.py:280)
TOP_SINGLE == 20

row_get(row, col, default) == IF col \in DOMAIN row THEN row[col] ELSE default

\* new_main.py
get_candidate_details_from_excel(candidate_ids, xl) ==
    IF ~xl.ok THEN <<>>
    ELSE SelectSeq(xl.hits, LAMBDA c : c.EmployeeID \in candidate_ids)

\* the loop body of new_main.py:248-265; current_role and skills come from
\* columns the model does not carry
candidate_of(row, candidate_details) ==
    LET m == SelectSeq(candidate_details, LAMBDA c : c.EmployeeID = row.id)
        candidate_detail == IF m = <<>> THEN <<>> ELSE m[1]
    IN  [candidate_id     |-> row.id,
         name             |-> row_get(candidate_detail, "Name", "N/A"),
         location         |-> row_get(row, "location", "N/A"),
         experience_years |-> row_get(row, "experience", 0),
         vector_score     |-> round(row_get(row, "vec_score", 0), ScoreDenom),
         sparse_score     |-> round(row_get(row, "sp_score", 0), ScoreDenom),
         combined_score   |-> round(row_get(row, "combined_score", 0),
                                    CombinedDenom)]

\* new_main.py, POST /candidates/search from the search on (lines 222-286)
search_candidates_respond(data, search_filter, r, dl, xl) ==
    LET df_results == r.rows
        candidate_ids == { df_results[i].id : i \in 1..Len(df_results) }
        c_dl == r.calls \o <<[svc |-> "download"]>>
        c_xl == c_dl \o <<[svc |-> "read_excel"]>>
        candidate_details ==
            get_candidate_details_from_excel(candidate_ids, xl)
        candidates == [i \in 1..Len(df_results) |->
                          candidate_of(df_results[i], candidate_details)]
    IN
    IF df_results = <<>>
    THEN Out(200,
             [request_id |-> data.id, job_title |-> data.job_title,
              matches_found |-> 0, candidates |-> <<>>,
              extracted_skills |-> r.skills,
              message |-> "No matching candidates found"],
             <<r>>, r.calls, FALSE)
    ELSE IF ~dl.ok
    THEN \* the temporary file is created before the download raises
         Out(500, [error |-> "Internal server error"], <<r>>, c_dl, TRUE)
    ELSE Out(200,
             [request_id |-> data.id, job_title |-> data.job_title,
              role_level |-> data.rolelevel, location |-> data.location,
              matches_found |-> Len(candidates),
              candidates |-> Take(candidates, TOP_SINGLE),
              extracted_skills |-> r.skills,
              search_metadata |->
                  [total_vector_hits |-> Len(df_results),
                   filter_applied |-> search_filter]],
             <<r>>, c_xl, FALSE)

\* new_main.py, POST /candidates/search
search_candidates(req, gem, vec, sp, dl, xl) ==
    IF ~req.is_json
    THEN Out(400, [error |-> "Request must be JSON"], <<>>, <<>>, FALSE)
    ELSE IF REQUIRED_FIELDS \ DOMAIN req.data # {}
    THEN Out(400, [error |-> "Missing required fields",
                   fields |-> REQUIRED_FIELDS \ DOMAIN req.data],
             <<>>, <<>>, FALSE)
    ELSE search_candidates_respond(
             req.data,
             build_filter(req.data.location, req.data.rolelevel),
             run_candidate_search(
                 req.data.role_summary,
                 build_filter(req.data.location, req.data.rolelevel),
                 TOP_K, gem, vec, sp),
             dl, xl)

\* api.py, POST /match, from the search result on (lines 143-146); an
\* exception leaving the handler is answered 500
match_jd_respond(jd, r) ==
    IF r.raised
    THEN Out(500, [detail |-> "Internal Server Error"], <<r>>, r.calls, FALSE)
    ELSE Out(200,
             [requirementId |-> jd.requirementId,
              extractedSkills |-> r.skills,
              candidates |-> r.rows],
             <<r>>, r.calls, FALSE)

\* api.py, POST /match
match_jd(jd, gem, vec, sp) ==
    match_jd_respond(
        jd,
        api_run_search(jd.roleSummary,
                       api_build_filter(jd.workLocation, jd.roleLevel),
                       TOP_K, gem, vec, sp))

\* new_main.py, GET /candidates/stats; the distributions it reports come
\* from columns the model does not carry
get_candidate_stats(dl, xl) ==
    IF ~dl.ok
    THEN \* the temporary file is created before the download raises
         Out(500, [error |-> "Internal server error"], <<>>,
             <<[svc |-> "download"]>>, TRUE)
    ELSE IF ~xl.ok
    THEN Out(500, [error |-> "Internal server error"], <<>>,
             <<[svc |-> "download"], [svc |-> "read_excel"]>>, TRUE)
    ELSE Out(200, [total_candidates |-> Len(xl.hits),
                   last_updated |-> "Retrieved from GCS"], <<>>,
             <<[svc |-> "download"], [svc |-> "read_excel"]>>, FALSE)

(***************************************************************************)
(* Specification of one search: the request is drawn in Init, one action   *)
(* per handler runs it against outcomes of the external calls.             *)
(***************************************************************************)
NoRequest == [none |-> TRUE]

FlaskRequests ==
    { [is_json |-> TRUE,
       data |-> [id |-> "R1", job_title |-> "Dev",
                 rolelevel |-> <<"S", "r">>,
                 location |-> <<"P", "u", "n", "e">>,
                 role_summary |-> JD]],
      [is_json |-> TRUE,
       data |-> [id |-> "R1", job_title |-> "Dev",
                 rolelevel |-> <<"S", "r">>,
                 location |-> <<"P", "u", "n", "e">>]],
      [is_json |-> FALSE, data |-> <<>>] }

\* GET /candidates/stats carries no input
StatsRequest == [stats |-> TRUE]

JDRequests ==
    { [requirementId |-> "R1", roleLevel |-> <<"m", "i", "d">>,
       workLocation |-> <<"P", "u", "n", "e">>, roleSummary |-> JD] }

\* the outcomes of the calls that were issued; a call not issued has none
ExtOf(calls, gem, vec, sp, dl, xl) ==
    [gem |-> IF Issued(calls, "generate") THEN gem ELSE NotCalled,
     vec |-> IF Issued(calls, "dense") THEN vec ELSE NotCalled,
     sp  |-> IF Issued(calls, "sparse") THEN sp ELSE NotCalled,
     dl  |-> IF Issued(calls, "download") THEN dl ELSE NotCalled,
     xl  |-> IF Issued(calls, "read_excel") THEN xl ELSE NotCalled]

\* no profiles are uploaded
UpsertIdle ==
    /\ urows = <<>>
    /\ upos = 0
    /\ vector_ups = <<>>
    /\ sparse_ups = <<>>
    /\ umsgs = <<>>
    /\ upc = "idle"

\* the merge step is not run on its own
MergeIdle ==
    /\ mhits = <<>>
    /\ mimpl = "none"
    /\ mruns = <<>>
    /\ UpsertIdle

BatchIdle ==
    /\ breq = NoRequest
    /\ bimpl = "none"
    /\ pool = 0
    /\ task = <<>>
    /\ tout = <<>>
    /\ tres = <<>>
    /\ collected = {}
    /\ results = <<>>
    /\ bpc = "idle"
    /\ bresp = <<>>
    /\ btmp = FALSE

SearchIdle ==
    /\ sreq = NoRequest
    /\ simpl = "none"
    /\ ext = NoCalls
    /\ ret = <<>>
    /\ resp = <<>>
    /\ tmp_file = FALSE

SearchInit ==
    /\ sreq \in FlaskRequests \cup JDRequests \cup {StatsRequest}
    /\ simpl = "none"
    /\ ext = NoCalls
    /\ ret = <<>>
    /\ resp = <<>>
    /\ tmp_file = FALSE
    /\ FilterIdle
    /\ BatchIdle
    /\ MergeIdle
    /\ quicksort \in QuicksortTies

\* the handler's outcome o becomes the state; a call that was not issued
\* has no outcome
Handled(o, gem, vec, sp, dl, xl) ==
    /\ Issued(o.calls, "download") \/ dl = Raises
    /\ Issued(o.calls, "read_excel") \/ xl = Raises
    /\ ext' = ExtOf(o.calls, gem, vec, sp, dl, xl)
    /\ ret' = o.ret
    /\ resp' = <<[status |-> o.status, body |-> o.body]>>
    /\ tmp_file' = o.tmp_file

\* POST /candidates/search of new_main.py
SearchCandidates ==
    /\ simpl = "none"
    /\ sreq \in FlaskRequests
    /\ \E gem \in GemOutcomes, vec \in VecOutcomes, sp \in SpOutcomes,
          dl \in DlOutcomes, xl \in XlOutcomes :
          Handled(search_candidates(sreq, gem, vec, sp, dl, xl),
                  gem, vec, sp, dl, xl)
    /\ simpl' = "new_main"
    /\ UNCHANGED <<sreq, filterVars, batchVars, extraVars>>

\* POST /match of api.py
MatchJd ==
    /\ simpl = "none"
    /\ sreq \in JDRequests
    /\ \E gem \in GemOutcomes, vec \in VecOutcomes, sp \in SpOutcomes :
          Handled(match_jd(sreq, gem, vec, sp),
                  gem, vec, sp, Raises, Raises)
    /\ simpl' = "api"
    /\ UNCHANGED <<sreq, filterVars, batchVars, extraVars>>

\* the function's return value r becomes the state
Called(r, gem, vec, sp) ==
    /\ ext' = ExtOf(r.calls, gem, vec, sp, NotCalled, NotCalled)
    /\ ret' = <<r>>

\* a call of run_search of pages/Search_candidates.py
PagesRunSearch ==
    /\ simpl = "none"
    /\ sreq \in JDRequests
    /\ \E gem \in GemOutcomes, vec \in VecOutcomes, sp \in SpOutcomes :
          Called(pages_run_search(
                     sreq.roleSummary,
                     pages_build_filter(sreq.workLocation, sreq.roleLevel),
                     TOP_K, gem, vec, sp),
                 gem, vec, sp)
    /\ simpl' = "pages"
    /\ UNCHANGED <<sreq, resp, tmp_file, filterVars, batchVars, extraVars>>

\* GET /candidates/stats of new_main.py
GetCandidateStats ==
    /\ simpl = "none"
    /\ sreq = StatsRequest
    /\ \E dl \in DlOutcomes, xl \in XlOutcomes :
          Handled(get_candidate_stats(dl, xl),
                  NotCalled, NotCalled, NotCalled, dl, xl)
    /\ simpl' = "new_main_stats"
    /\ UNCHANGED <<sreq, filterVars, batchVars, extraVars>>

SearchNext ==
    SearchCandidates \/ MatchJd \/ PagesRunSearch \/ GetCandidateStats

SpecSearch == SearchInit /\ [][SearchNext]_vars

(***************************************************************************)
(* Batch search: POST /candidates/bulk (new_main.py), POST /match_bulk     *)
(* (api.py) and the bulk loop of pages/Search_candidates.py.  The handler  *)
(* submits one task per job to a thread pool; the pool's workers run the   *)
(* searches; the handler collects the futures as they complete.            *)
(***************************************************************************)
\* the most jobs a batch holds in the model
NumJobs == 2

\* ThreadPoolExecutor(max_workers=min(5, ...)) (new_main.py:314)
NEW_MAIN_MAX_WORKERS == 5
\* ThreadPoolExecutor(max_workers=min(10, ...)) (api.py:173)
API_MAX_WORKERS == 10
\* ThreadPoolExecutor(max_workers=min(10, ...)) (Search_candidates.py:95)
PAGES_MAX_WORKERS == 10
\* top_k of a bulk search of new_main.py (new_main.py:326)
TOP_K_BULK == 30
\* candidates[:10] (new_main.py:359)
TOP_BULK == 10

Min(a, b) == IF a < b THEN a ELSE b

JobIds == <<"R1", "R2", "R3", "R4">>

\* the k-th job of a JSON batch, complete or without its role_summary
FlaskJob(k, complete) ==
    IF complete
    THEN [id |-> JobIds[k], job_title |-> "Dev", rolelevel |-> <<"S", "r">>,
          location |-> <<"P", "u", "n", "e">>, role_summary |-> JD]
    ELSE [id |-> JobIds[k], job_title |-> "Dev", rolelevel |-> <<"S", "r">>,
          location |-> <<"P", "u", "n", "e">>]

FlaskBulkRequests ==
    { [is_json |-> FALSE, data |-> <<>>] } \cup
    UNION { { [is_json |-> TRUE,
               data |-> [job_requirements |->
                            [k \in 1..n |-> FlaskJob(k, c[k])]]] :
                  c \in [1..n -> BOOLEAN] }
            : n \in 0..NumJobs }

\* the k-th row of an uploaded sheet that has the required columns
SheetRow(k) ==
    ("Requirement ID" :> JobIds[k]) @@ ("Role Level" :> <<"m", "i", "d">>)
    @@ ("Work Location" :> <<"P", "u", "n", "e">>) @@ ("Summary" :> JD)

\* required_cols (api.py:167)
required_cols == {"Requirement ID", "Role Level", "Work Location", "Summary"}

\* the k-th row of an uploaded sheet without the Summary column
SheetRowNoSummary(k) ==
    [c \in required_cols \ {"Summary"} |-> SheetRow(k)[c]]

XLSX == <<".", "x", "l", "s", "x">>
XLS  == <<".", "x", "l", "s">>
CSV  == <<".", "c", "s", "v">>
TXT  == <<".", "t", "x", "t">>

\* the names an uploaded file can have
FileNames == { <<"j">> \o e : e \in {XLSX, CSV, TXT} }

\* str.endswith
endswith(s, suffix) ==
    /\ Len(suffix) <= Len(s)
    /\ SubSeq(s, Len(s) - Len(suffix) + 1, Len(s)) = suffix

\* an uploaded file: its name, whether pandas can read it and, if so, the
\* columns and rows read
Sheets ==
    { [filename |-> f, readable |-> TRUE, columns |-> required_cols,
       df_jobs |-> [k \in 1..n |-> SheetRow(k)]] :
          f \in FileNames, n \in 0..NumJobs }
    \cup
    { [filename |-> f, readable |-> TRUE,
       columns |-> required_cols \ {"Summary"},
       df_jobs |-> [k \in 1..n |-> SheetRowNoSummary(k)]] :
          f \in FileNames, n \in {1} }
    \cup
    { [filename |-> f, readable |-> FALSE, columns |-> {},
       df_jobs |-> <<>>] : f \in FileNames }

PuneThree == [location |-> "pune", experience |-> 3]

\* the outcomes of the three external calls of one task's search
BatchOutcomes ==
    { \* one candidate found
      [gem |-> Says(<<"g", "o">>),
       vec |-> Gives(<<[_id |-> "E1", _score |-> 9000, fields |-> PuneThree]>>),
       sp  |-> Gives(<<[_id |-> "E1", _score |-> 7000, fields |-> PuneThree]>>)],
      \* two candidates found
      [gem |-> Says(<<"g", "o">>),
       vec |-> Gives(<<[_id |-> "E2", _score |-> 9000, fields |-> PuneThree],
                       [_id |-> "E1", _score |-> 7000, fields |-> PuneThree]>>),
       sp  |-> Gives(<<[_id |-> "E1", _score |-> 7001, fields |-> PuneThree],
                       [_id |-> "E2", _score |-> 4000, fields |-> PuneThree]>>)],
      \* no skills extracted, no candidate found
      [gem |-> Says(<<>>), vec |-> Gives(<<>>), sp |-> Gives(<<>>)],
      \* the text generation raises
      [gem |-> Raises, vec |-> Gives(<<>>), sp |-> Gives(<<>>)],
      \* the dense query raises
      [gem |-> Says(<<"g", "o">>), vec |-> Raises, sp |-> Gives(<<>>)],
      \* the sparse query raises
      [gem |-> Says(<<"g", "o">>),
       vec |-> Gives(<<[_id |-> "E1", _score |-> 9000, fields |-> PuneThree]>>),
       sp  |-> Raises] }

NoOutcome == [gem |-> NotCalled, vec |-> NotCalled, sp |-> NotCalled]

\* the outcomes of the calls a search issued
OutcomeOf(calls, o) ==
    [gem |-> IF Issued(calls, "generate") THEN o.gem ELSE NotCalled,
     vec |-> IF Issued(calls, "dense") THEN o.vec ELSE NotCalled,
     sp  |-> IF Issued(calls, "sparse") THEN o.sp ELSE NotCalled]

\* the jobs of the batch, in input order
Jobs ==
    IF breq \in Sheets THEN breq.df_jobs
    ELSE IF breq \in FlaskBulkRequests /\ breq.is_json
    THEN breq.data.job_requirements
    ELSE <<>>

\* the search a task runs for its job
run_task(impl, job, o) ==
    IF impl = "new_main"
    THEN run_candidate_search(job.role_summary,
                              build_filter(job.location, job.rolelevel),
                              TOP_K_BULK, o.gem, o.vec, o.sp)
    ELSE IF impl = "api"
    THEN api_run_search(job["Summary"],
                        api_build_filter(job["Work Location"],
                                         job["Role Level"]),
                        TOP_K, o.gem, o.vec, o.sp)
    ELSE pages_run_search(job["Summary"],
                          pages_build_filter(job["Work Location"],
                                             job["Role Level"]),
                          TOP_K, o.gem, o.vec, o.sp)

\* the loop body of new_main.py:341-353
bulk_candidate_of(row, candidate_details) ==
    LET m == SelectSeq(candidate_details, LAMBDA c : c.EmployeeID = row.id)
        candidate_detail == IF m = <<>> THEN <<>> ELSE m[1]
    IN  [candidate_id   |-> row.id,
         name           |-> row_get(candidate_detail, "Name", "N/A"),
         combined_score |-> round(row_get(row, "combined_score", 0),
                                  CombinedDenom)]

\* new_main.py:332-369, the result entry of one completed future
bulk_entry(job_req, r, xl) ==
    IF r.raised
    THEN [request_id |-> job_req.id,
          job_title |-> row_get(job_req, "job_title", "N/A"),
          error |-> "search raised"]
    ELSE LET df_results == r.rows
             candidate_details ==
                 get_candidate_details_from_excel(
                     { df_results[i].id : i \in 1..Len(df_results) }, xl)
             candidates == [i \in 1..Len(df_results) |->
                               bulk_candidate_of(df_results[i],
                                                 candidate_details)]
         IN  [request_id |-> job_req.id,
              job_title |-> job_req.job_title,
              matches_found |-> Len(candidates),
              top_candidates |-> Take(candidates, TOP_BULK),
              extracted_skills |-> r.skills]

\* api.py:180-190, the result entry of one completed future
api_bulk_entry(req_id, r) ==
    IF r.raised
    THEN [requirementId |-> req_id, extractedSkills |-> <<>>,
          candidates |-> <<>>]
    ELSE [requirementId |-> req_id, extractedSkills |-> r.skills,
          candidates |-> r.rows]

\* Search_candidates.py:105-110, what is shown for one completed future
pages_bulk_entry(req_id, r) ==
    IF r.rows = <<>>
    THEN [req_id |-> req_id, warning |-> "No matches"]
    ELSE [req_id |-> req_id, df_res |-> r.rows, skills |-> r.skills]

BatchInit ==
    /\ breq \in FlaskBulkRequests \cup Sheets
    /\ bimpl = "none"
    /\ pool = 0
    /\ task = <<>>
    /\ tout = <<>>
    /\ tres = <<>>
    /\ collected = {}
    /\ results = <<>>
    /\ bpc = "idle"
    /\ bresp = <<>>
    /\ btmp = FALSE
    /\ FilterIdle
    /\ SearchIdle
    /\ MergeIdle
    /\ quicksort \in QuicksortTies

\* the handler answers without running any search
Reject(status, body, tmp) ==
    /\ bresp' = <<[status |-> status, body |-> body]>>
    /\ bpc' = "done"
    /\ btmp' = tmp
    /\ UNCHANGED <<pool, task, tout, tres, collected, results>>

\* the pool is created and the tasks are submitted
Submit(max_workers, statuses, tmp) ==
    /\ pool' = max_workers
    /\ task' = statuses
    /\ tout' = [k \in 1..Len(statuses) |-> NoOutcome]
    /\ tres' = [k \in 1..Len(statuses) |-> <<>>]
    /\ bpc' = "collecting"
    /\ btmp' = tmp
    /\ UNCHANGED <<collected, results, bresp>>

\* new_main.py:298-328
NewMainBulkStart ==
    /\ bimpl = "none"
    /\ breq \in FlaskBulkRequests
    /\ bimpl' = "new_main"
    /\ IF ~breq.is_json
       THEN Reject(400, [error |-> "Request must be JSON"], FALSE)
       ELSE IF row_get(breq.data, "job_requirements", <<>>) = <<>>
       THEN Reject(400, [error |-> "job_requirements array is required"],
                   FALSE)
       ELSE \E dl \in DlOutcomes :
               IF ~dl.ok
               THEN Reject(500, [error |-> "Internal server error"], TRUE)
               ELSE Submit(Min(NEW_MAIN_MAX_WORKERS, Len(Jobs)),
                           [k \in 1..Len(Jobs) |->
                               IF REQUIRED_FIELDS \subseteq DOMAIN Jobs[k]
                               THEN "queued" ELSE "none"],
                           TRUE)
    /\ UNCHANGED <<breq, filterVars, searchVars, extraVars>>

\* api.py:156-177.  The HTTPException(400) for an unsupported file type is
\* raised inside the try block and caught by its except Exception, which
\* raises HTTPException(500).  ThreadPoolExecutor raises ValueError for
\* max_workers 0, which leaves the handler and is answered 500.
ApiBulkStart ==
    /\ bimpl = "none"
    /\ breq \in Sheets
    /\ bimpl' = "api"
    /\ IF ~(\/ endswith(breq.filename, XLSX)
            \/ endswith(breq.filename, XLS)
            \/ endswith(breq.filename, CSV))
       THEN Reject(500, [detail |-> "File read error: 400: Unsupported file type."],
                   FALSE)
       ELSE IF ~breq.readable
       THEN Reject(500, [detail |-> "File read error"], FALSE)
       ELSE IF ~(required_cols \subseteq breq.columns)
       THEN Reject(400, [detail |-> "Input file must contain columns"], FALSE)
       ELSE IF Min(API_MAX_WORKERS, Len(Jobs)) <= 0
       THEN Reject(500, [detail |-> "Internal Server Error"], FALSE)
       ELSE Submit(Min(API_MAX_WORKERS, Len(Jobs)),
                   [k \in 1..Len(Jobs) |-> "queued"], FALSE)
    /\ UNCHANGED <<breq, filterVars, searchVars, extraVars>>

\* Search_candidates.py:87-99; the uploader takes .xlsx and .xls files
\* only.  An exception ends the script run: read_excel raising, KeyError
\* for a missing column on the first row, ValueError of ThreadPoolExecutor
\* for max_workers 0.
PagesBulkStart ==
    /\ bimpl = "none"
    /\ breq \in Sheets
    /\ endswith(breq.filename, XLSX) \/ endswith(breq.filename, XLS)
    /\ bimpl' = "pages"
    /\ IF \/ ~breq.readable
          \/ Min(PAGES_MAX_WORKERS, Len(Jobs)) <= 0
          \/ ~({"Requirement ID", "Work Location", "Role Level", "Summary"}
                  \subseteq breq.columns)
       THEN /\ bpc' = "aborted"
            /\ UNCHANGED <<pool, task, tout, tres, collected, results,
                           bresp, btmp>>
       ELSE Submit(Min(PAGES_MAX_WORKERS, Len(Jobs)),
                   [k \in 1..Len(Jobs) |-> "queued"], FALSE)
    /\ UNCHANGED <<breq, filterVars, searchVars, extraVars>>

Running == { j \in 1..Len(task) : task[j] = "running" }

\* a worker of the pool takes the oldest queued task
TaskStart(k) ==
    /\ bpc = "collecting"
    /\ k \in 1..Len(task)
    /\ task[k] = "queued"
    /\ \A j \in 1..(k - 1) : task[j] # "queued"
    /\ Cardinality(Running) < pool
    /\ task' = [task EXCEPT ![k] = "running"]
    /\ UNCHANGED <<breq, bimpl, pool, tout, tres, collected, results, bpc,
                   bresp, btmp, filterVars, searchVars, extraVars>>

\* the task's search returned r (or raised) against the outcomes o
Finished(k, r, o) ==
    /\ task' = [task EXCEPT ![k] = "done"]
    /\ tres' = [tres EXCEPT ![k] = <<r>>]
    /\ tout' = [tout EXCEPT ![k] = OutcomeOf(r.calls, o)]

\* the worker runs the task's search to its end
TaskFinish(k) ==
    /\ k \in 1..Len(task)
    /\ task[k] = "running"
    /\ \E o \in BatchOutcomes : Finished(k, run_task(bimpl, Jobs[k], o), o)
    /\ UNCHANGED <<breq, bimpl, pool, collected, results, bpc, bresp, btmp,
                   filterVars, searchVars, extraVars>>

\* as_completed yields the future of task k
Yielded(k) ==
    /\ bpc = "collecting"
    /\ k \in 1..Len(task)
    /\ task[k] = "done"
    /\ k \notin collected

AllCollected == \A k \in 1..Len(task) : task[k] # "none" => k \in collected

\* new_main.py:331-369, one iteration of the collecting loop
NewMainBulkCollect(k) ==
    /\ bimpl = "new_main"
    /\ Yielded(k)
    /\ \E xl \in XlOutcomes :
          \* the spreadsheet is read only for a search that found rows
          /\ tres[k][1].rows # <<>> \/ xl = Raises
          /\ results' = Append(results, bulk_entry(Jobs[k], tres[k][1], xl))
    /\ collected' = collected \cup {k}
    /\ UNCHANGED <<breq, bimpl, pool, task, tout, tres, bpc, bresp, btmp,
                   filterVars, searchVars, extraVars>>

\* new_main.py:371-380
NewMainBulkRespond ==
    /\ bimpl = "new_main"
    /\ bpc = "collecting"
    /\ AllCollected
    /\ btmp' = FALSE
    /\ bresp' = <<[status |-> 200,
                   body |-> [total_jobs_processed |-> Len(results),
                             results |-> results]]>>
    /\ bpc' = "done"
    /\ UNCHANGED <<breq, bimpl, pool, task, tout, tres, collected, results,
                   filterVars, searchVars, extraVars>>

\* api.py:179-190, one iteration of the collecting loop
ApiBulkCollect(k) ==
    /\ bimpl = "api"
    /\ Yielded(k)
    /\ results' = Append(results,
                         api_bulk_entry(Jobs[k]["Requirement ID"], tres[k][1]))
    /\ collected' = collected \cup {k}
    /\ UNCHANGED <<breq, bimpl, pool, task, tout, tres, bpc, bresp, btmp,
                   filterVars, searchVars, extraVars>>

\* api.py:192
ApiBulkRespond ==
    /\ bimpl = "api"
    /\ bpc = "collecting"
    /\ AllCollected
    /\ bresp' = <<[status |-> 200, body |-> [results |-> results]]>>
    /\ bpc' = "done"
    /\ UNCHANGED <<breq, bimpl, pool, task, tout, tres, collected, results,
                   btmp, filterVars, searchVars, extraVars>>

\* Search_candidates.py:101-110, one iteration of the loop, which runs
\* after the with block has waited for every task; fut.result() raises
\* what the search raised, and nothing catches it
PagesBulkCollect(k) ==
    /\ bimpl = "pages"
    /\ \A j \in 1..Len(task) : task[j] = "done"
    /\ Yielded(k)
    /\ collected' = collected \cup {k}
    /\ IF tres[k][1].raised
       THEN bpc' = "aborted" /\ UNCHANGED results
       ELSE /\ results' = Append(results,
                                 pages_bulk_entry(Jobs[k]["Requirement ID"],
                                                  tres[k][1]))
            /\ UNCHANGED bpc
    /\ UNCHANGED <<breq, bimpl, pool, task, tout, tres, bresp, btmp,
                   filterVars, searchVars, extraVars>>

\* the loop of Search_candidates.py ends
PagesBulkDone ==
    /\ bimpl = "pages"
    /\ bpc = "collecting"
    /\ AllCollected
    /\ bpc' = "done"
    /\ UNCHANGED <<breq, bimpl, pool, task, tout, tres, collected, results,
                   bresp, btmp, filterVars, searchVars, extraVars>>

BatchNext ==
    \/ NewMainBulkStart
    \/ ApiBulkStart
    \/ PagesBulkStart
    \/ \E k \in 1..NumJobs : TaskStart(k)
    \/ \E k \in 1..NumJobs : TaskFinish(k)
    \/ \E k \in 1..NumJobs : NewMainBulkCollect(k)
    \/ NewMainBulkRespond
    \/ \E k \in 1..NumJobs : ApiBulkCollect(k)
    \/ ApiBulkRespond
    \/ \E k \in 1..NumJobs : PagesBulkCollect(k)
    \/ PagesBulkDone

SpecBatch == BatchInit /\ [][BatchNext]_vars

\* the batch handlers with the scheduling of the thread pool: a worker that
\* can take a task does, a search that runs returns or raises, and the
\* handler's loop goes on
BatchFairness ==
    /\ WF_vars(\E k \in 1..NumJobs : TaskStart(k))
    /\ WF_vars(\E k \in 1..NumJobs : TaskFinish(k))

SpecBatchFair == BatchInit /\ [][BatchNext]_vars /\ BatchFairness

\* the single-job and the batch handlers together
CallsInit == SearchInit \/ BatchInit

CallsNext == SearchNext \/ BatchNext

SpecCalls == CallsInit /\ [][CallsNext]_vars

(***************************************************************************)
(* The merge step run on its own: the two hit lists are drawn in Init, and *)
(* the merge of one implementation is run on them, and run again.          *)
(***************************************************************************)
\* how often the merge is run on the same hit lists
MaxRuns == 2

MergeInit ==
    /\ mhits \in { <<v, s>> : v \in HitLists(Hits(DenseScores, DenseMetas)),
                              s \in HitLists(Hits(SparseScores, SparseMetas)) }
    /\ mimpl = "none"
    /\ mruns = <<>>
    /\ quicksort \in QuicksortTies
    /\ FilterIdle
    /\ SearchIdle
    /\ BatchIdle
    /\ UpsertIdle

\* one more run of the merge of implementation impl
MergeRun(impl, out) ==
    /\ mimpl \in {"none", impl}
    /\ Len(mruns) < MaxRuns
    /\ mimpl' = impl
    /\ mruns' = Append(mruns, out)
    /\ UNCHANGED <<mhits, quicksort, filterVars, searchVars, batchVars,
                   upsertVars>>

MergeNewMain ==
    MergeRun("new_main", merge_candidates(DataFrame(mhits[1], vec_row),
                                          DataFrame(mhits[2], sp_row)))

MergeApi ==
    MergeRun("api", api_merge_candidates(DataFrame(mhits[1], vec_row),
                                         DataFrame(mhits[2], sp_row)))

MergePages ==
    MergeRun("pages", pages_merge_candidates(DataFrame(mhits[1], vec_row),
                                             DataFrame(mhits[2], sp_row)))

MergeNext == MergeNewMain \/ MergeApi \/ MergePages

SpecMerge == MergeInit /\ [][MergeNext]_vars

(***************************************************************************)
(* Upload of candidate profiles, pages/upload_batch.py: for every row of   *)
(* the spreadsheet upsert_candidate writes the project experience of the   *)
(* candidate's resume to the dense index and the skills to the sparse one. *)
(* The text of a resume is a sequence of tokens: the section heading,      *)
(* whitespace, words.                                                      *)
(***************************************************************************)
\* the most rows the uploaded spreadsheet has in the model
NumRows == 2

EmpIds == <<"EMP-1", "EMP-2", "EMP-3">>

HEADING == "Project Experience:"
\* the heading in another case; re.IGNORECASE matches it
HEADING_UPPER == "PROJECT EXPERIENCE:"
SPACE == " "

\* a resume: missing from the folder, not readable by PdfReader, or a text
Pdfs ==
    { [exists |-> FALSE, readable |-> FALSE, text |-> <<>>],
      [exists |-> TRUE,  readable |-> FALSE, text |-> <<>>],
      \* no section
      [exists |-> TRUE,  readable |-> TRUE,  text |-> <<"Profile", SPACE, "go">>],
      \* a section with text
      [exists |-> TRUE,  readable |-> TRUE,
       text |-> <<"Profile", SPACE, HEADING_UPPER, SPACE, "built", SPACE,
                  "search", SPACE>>],
      \* a section with nothing in it
      [exists |-> TRUE,  readable |-> TRUE,  text |-> <<HEADING, SPACE>>] }

NAMESPACE_VECTOR == "resume-experience"
NAMESPACE_SPARSE == "resume-skills"

\* m = re.search(r'Project Experience:(.*)', text, IGNORECASE | DOTALL);
\* m.group(1).strip() if m else ""
extract_project_experience(pdf) ==
    LET text == pdf.text
        at == { i \in 1..Len(text) : text[i] \in {HEADING, HEADING_UPPER} }
    IN  IF at = {} THEN <<>>
        ELSE LET first == CHOOSE i \in at : \A j \in at : i <= j
                 group == SubSeq(text, first + 1, Len(text))
                 inked == { i \in 1..Len(group) : group[i] # SPACE }
             IN  IF inked = {} THEN <<>>
                 ELSE SubSeq(group,
                             CHOOSE i \in inked : \A j \in inked : i <= j,
                             CHOOSE i \in inked : \A j \in inked : i >= j)

\* an upsert_records call either returns or raises
UpsertOutcomes == {"ok", "raises"}

\* what one call of upsert_candidate does, given the outcomes dense and
\* sparse of the upsert_records calls it reaches: the calls made on each
\* index, the messages shown and whether an exception left the function
upsert_candidate(emp_id, skills, pdf, dense, sparse) ==
    LET proj_text == extract_project_experience(pdf)
        vcall == [namespace |-> NAMESPACE_VECTOR, id |-> emp_id,
                  text |-> proj_text]
        scall == [namespace |-> NAMESPACE_SPARSE, id |-> emp_id,
                  text |-> skills]
        left(v, m) == [vector |-> v, sparse |-> <<>>, msgs |-> m,
                       raised |-> TRUE]
        went_on(v, m) == [vector |-> v, sparse |-> <<scall>>, msgs |-> m,
                          raised |-> sparse = "raises"]
    IN  IF ~pdf.exists
        THEN \* FileNotFoundError, the one exception the function catches
             went_on(<<>>, <<"Missing resume file">>)
        ELSE IF ~pdf.readable
        THEN left(<<>>, <<>>)
        ELSE IF proj_text = <<>>
        THEN went_on(<<>>, <<"No Project Experience found">>)
        ELSE IF dense = "raises"
        THEN left(<<vcall>>, <<>>)
        ELSE went_on(<<vcall>>, <<>>)

UpsertInit ==
    /\ urows \in UNION { [1..n -> [skills : {<<"go", "sql">>}, pdf : Pdfs]]
                           : n \in 0..NumRows }
    /\ upos = 0
    /\ vector_ups = <<>>
    /\ sparse_ups = <<>>
    /\ umsgs = <<>>
    /\ upc = "idle"
    /\ quicksort = "kept"
    /\ FilterIdle
    /\ SearchIdle
    /\ BatchIdle
    /\ mhits = <<>> /\ mimpl = "none" /\ mruns = <<>>

\* upload_batch.py:79-92: the button is pressed, the archive extracted and
\* the spreadsheet read
ProcessAndUpsert ==
    /\ upc = "idle"
    /\ upc' = "running"
    /\ UNCHANGED <<urows, upos, vector_ups, sparse_ups, umsgs, quicksort,
                   filterVars, searchVars, batchVars, mergeVars>>

\* the state after a call of upsert_candidate that did o
Upserted(o) ==
    /\ vector_ups' = vector_ups \o o.vector
    /\ sparse_ups' = sparse_ups \o o.sparse
    /\ umsgs' = umsgs \o o.msgs
    /\ upc' = IF o.raised THEN "aborted" ELSE upc

\* upload_batch.py:95-108, one iteration of the loop over the rows; an
\* exception leaving upsert_candidate ends the script run
UpsertCandidate ==
    /\ upc = "running"
    /\ upos < Len(urows)
    /\ upos' = upos + 1
    /\ \E dense \in UpsertOutcomes, sparse \in UpsertOutcomes :
          Upserted(upsert_candidate(EmpIds[upos + 1], urows[upos + 1].skills,
                                    urows[upos + 1].pdf, dense, sparse))
    /\ UNCHANGED <<urows, quicksort, filterVars, searchVars, batchVars,
                   mergeVars>>

\* upload_batch.py:110-113, after the last row
UpsertDone ==
    /\ upc = "running"
    /\ upos = Len(urows)
    /\ upc' = "done"
    /\ UNCHANGED <<urows, upos, vector_ups, sparse_ups, umsgs, quicksort,
                   filterVars, searchVars, batchVars, mergeVars>>

UpsertNext == ProcessAndUpsert \/ UpsertCandidate \/ UpsertDone

SpecUpsert == UpsertInit /\ [][UpsertNext]_vars

(***************************************************************************)
(* The candidate lists of new_main.py on long results: the search has      *)
(* returned its ranked frame, and the handler builds the response from it  *)
(* and from the candidate spreadsheet.                                     *)
(***************************************************************************)
\* the most rows a ranked result holds in the model (top_k is 50 and 30 in
\* the code); above candidates[:20]
MaxRanked == 22

\* the i-th row of a ranked result of n rows: the candidates come in
\* descending employee number, the scores descend with the rank
ranked_row(i, n) ==
    [id |-> ToString(n - i + 1), vec_score |-> 9000 - 100 * i,
     sp_score |-> 7000 - 100 * i, location |-> "pune", experience |-> 3]

RankedResults ==
    { Return(with_combined_score([i \in 1..n |-> ranked_row(i, n)]),
             <<>>, <<>>) : n \in 0..MaxRanked }

\* the spreadsheet row of employee k; 'Employee ID' after astype(str)
sheet_row(k) ==
    [EmployeeID |-> ToString(k), Name |-> "N" \o ToString(k),
     Skills |-> "go, sql"]

\* a spreadsheet in ascending employee number that holds every m-th
\* employee
SheetOfEvery(m) == [j \in 1..(MaxRanked \div m) |-> sheet_row(j * m)]

\* a spreadsheet that lists employee 1 a second time
SheetWithRepeat == SheetOfEvery(1) \o <<sheet_row(1)>>

Spreadsheets == { SheetOfEvery(m) : m \in 1..3 } \cup {SheetWithRepeat}

SheetOutcomes == { Gives(x) : x \in Spreadsheets } \cup {Raises}

CompleteRequests ==
    { q \in FlaskRequests :
          q.is_json /\ REQUIRED_FIELDS \subseteq DOMAIN q.data }

\* run_candidate_search has returned; the calls it issued are not carried
RespondInit ==
    /\ sreq \in CompleteRequests
    /\ simpl = "searched"
    /\ ext = NoCalls
    /\ ret \in { <<r>> : r \in RankedResults }
    /\ resp = <<>>
    /\ tmp_file = FALSE
    /\ FilterIdle
    /\ BatchIdle
    /\ MergeIdle
    /\ quicksort = "kept"

\* new_main.py:232-286, search_candidates from the search's return on
SearchCandidatesRespond ==
    /\ simpl = "searched"
    /\ \E dl \in DlOutcomes, xl \in SheetOutcomes :
          Handled(search_candidates_respond(
                      sreq.data, build_filter(sreq.data.location,
                                              sreq.data.rolelevel),
                      ret[1], dl, xl),
                  NotCalled, NotCalled, NotCalled, dl, xl)
    /\ simpl' = "new_main"
    /\ UNCHANGED <<sreq, filterVars, batchVars, extraVars>>

\* new_main.py:332-361, bulk_search_candidates: the result entry of one
\* future whose search returned
BulkEntry ==
    /\ simpl = "searched"
    /\ \E xl \in SheetOutcomes :
          /\ results' = <<bulk_entry(sreq.data, ret[1], xl)>>
          /\ ext' = [ext EXCEPT !.xl = xl]
    /\ simpl' = "new_main_bulk"
    /\ UNCHANGED <<sreq, ret, resp, tmp_file, filterVars, extraVars,
                   breq, bimpl, pool, task, tout, tres, collected, bpc,
                   bresp, btmp>>

RespondNext == SearchCandidatesRespond \/ BulkEntry

SpecRespond == RespondInit /\ [][RespondNext]_vars

(***************************************************************************)
(* Specification of the filter builder: the arguments are drawn in Init,   *)
(* one action per copy of build_filter applies it.                         *)
(***************************************************************************)
FilterInit ==
    /\ location \in Locations
    /\ level \in Levels
    /\ filt = <<>>
    /\ fimpl = "none"
    /\ SearchIdle
    /\ BatchIdle
    /\ MergeIdle
    /\ quicksort = "kept"

BuildFilterNewMain ==
    /\ fimpl = "none"
    /\ filt' = <<build_filter(location, level)>>
    /\ fimpl' = "new_main"
    /\ UNCHANGED <<location, level, searchVars, batchVars, extraVars>>

BuildFilterApi ==
    /\ fimpl = "none"
    /\ filt' = <<api_build_filter(location, level)>>
    /\ fimpl' = "api"
    /\ UNCHANGED <<location, level, searchVars, batchVars, extraVars>>

BuildFilterPages ==
    /\ fimpl = "none"
    /\ filt' = <<pages_build_filter(location, level)>>
    /\ fimpl' = "pages"
    /\ UNCHANGED <<location, level, searchVars, batchVars, extraVars>>

FilterNext == BuildFilterNewMain \/ BuildFilterApi \/ BuildFilterPages

SpecFilter == FilterInit /\ [][FilterNext]_vars

(***************************************************************************)
(* Properties of the filter builder                                        *)
(***************************************************************************)
\* c is the letter d (given in lower case) in either case
SameLetter(c, d) ==
    c = d \/ \E i \in 1..26 : UpperAlpha[i] = c /\ LowerAlpha[i] = d

\* lev reads as the label w once surrounding whitespace is dropped and case
\* is ignored
LabelOf(lev, w) ==
    \E a \in 0..Len(lev) :
        /\ a + Len(w) <= Len(lev)
        /\ \A i \in 1..a : lev[i] \in Whitespace
        /\ \A i \in (a + Len(w) + 1)..Len(lev) : lev[i] \in Whitespace
        /\ \A k \in 1..Len(w) : SameLetter(lev[a + k], w[k])

HasLabel(lev, labels) == \E w \in labels : LabelOf(lev, w)

\* r is the text s with every upper-case letter replaced by its lower case
LowerCased(r, s) ==
    /\ Len(r) = Len(s)
    /\ \A i \in 1..Len(s) :
          /\ SameLetter(s[i], r[i])
          /\ \A j \in 1..26 : r[i] # UpperAlpha[j]

ExperienceIs(f, bound) == "experience" \in DOMAIN f /\ f["experience"] = bound

\* C9: build_filter of new_main.py returns, for every location and every
\* level label (trimmed, case-insensitive), a filter whose location constraint
\* is equality with the lower-cased location and whose experience constraint
\* is <= 2 for junior/entry, > 2 and < 5 for mid/middle/intermediate, >= 5 for
\* senior/sr, and absent for any other label.
C9_FilterNewMain ==
    fimpl = "new_main" =>
        LET f == filt[1] IN
        /\ DOMAIN f \subseteq {"location", "experience"}
        /\ DOMAIN f["location"] = {"$eq"}
        /\ LowerCased(f["location"]["$eq"], location)
        /\ HasLabel(level, JuniorLabels) => ExperienceIs(f, ("$lte" :> 2))
        /\ HasLabel(level, MidLabels) =>
              ExperienceIs(f, ("$gt" :> 2) @@ ("$lt" :> 5))
        /\ HasLabel(level, SeniorLabels) => ExperienceIs(f, ("$gte" :> 5))
        /\ ~HasLabel(level, JuniorLabels \cup MidLabels \cup SeniorLabels) =>
              DOMAIN f = {"location"}

\* a padded upper-case senior label and a mixed-case location went through
\* build_filter of new_main.py
C9_Witness ==
    /\ fimpl = "new_main"
    /\ level = <<" ", "S", "E", "N", "I", "O", "R", "\t", "\n">>
    /\ location = <<"P", "u", "n", "e">>
    /\ filt[1]["experience"] = ("$gte" :> 5)

\* C10 as stated: build_filter of api.py and pages/Search_candidates.py
\* yields <= 2 for a junior label, > 2 and < 5 for a mid label, >= 5 for a
\* senior label and no experience key for an unrecognized label.
C10_AsStated ==
    fimpl \in {"api", "pages"} =>
        LET f == filt[1] IN
        /\ HasLabel(level, JuniorLabels) => ExperienceIs(f, ("$lte" :> 2))
        /\ HasLabel(level, MidLabels) =>
              ExperienceIs(f, ("$gt" :> 2) @@ ("$lt" :> 5))
        /\ HasLabel(level, SeniorLabels) => ExperienceIs(f, ("$gte" :> 5))
        /\ ~HasLabel(level, JuniorLabels \cup MidLabels \cup SeniorLabels) =>
              DOMAIN f = {"location"}

\* C10 amended: build_filter of api.py and pages/Search_candidates.py keeps
\* the location as given and yields <= 1 for the label junior, > 1 and < 3
\* for the label mid, and > 3 for every other label, senior and unrecognized
\* alike (labels trimmed and compared case-insensitively).
C10_FilterApiPages ==
    fimpl \in {"api", "pages"} =>
        LET f == filt[1] IN
        /\ DOMAIN f = {"location", "experience"}
        /\ f["location"] = ("$eq" :> location)
        /\ LabelOf(level, W_junior) => f["experience"] = ("$lte" :> 1)
        /\ LabelOf(level, W_mid) =>
              f["experience"] = ("$gt" :> 1) @@ ("$lt" :> 3)
        /\ ~HasLabel(level, {W_junior, W_mid}) =>
              f["experience"] = ("$gt" :> 3)

\* filter("delhi", "unknownlabel") of api.py carries an experience bound
C10_Witness ==
    /\ fimpl = "api"
    /\ location = <<"d", "e", "l", "h", "i">>
    /\ level = W_unknownlabel
    /\ filt[1] = [location |-> ("$eq" :> location),
                  experience |-> ("$gt" :> 3)]

(***************************************************************************)
(* Properties of one search                                                *)
(***************************************************************************)
HitIds(hits) == { hits[i]._id : i \in 1..Len(hits) }

\* a search function ran and both similarity queries returned
BothReturned ==
    /\ simpl # "none" /\ ret # <<>>
    /\ ext.vec.called /\ ext.vec.ok
    /\ ext.sp.called /\ ext.sp.ok

\* exactly one of the two hit lists is empty
OneSideEmpty == (ext.vec.hits = <<>>) # (ext.sp.hits = <<>>)

\* 0.6 * dense + 0.4 * sparse of a merged row, in units of 1/CombinedDenom
Combined(row) == VEC_WEIGHT * row.vec_score + SP_WEIGHT * row.sp_score

\* C1 as stated: every record the merge step returns has an identity that is
\* in both hit lists, so the result is empty when either hit list is empty.
C1_AsStated ==
    BothReturned =>
        \A i \in 1..Len(ret[1].rows) :
            ret[1].rows[i].id \in HitIds(ext.vec.hits) \cap HitIds(ext.sp.hits)

\* C1 amended: every record returned by run_search (api.py,
\* Search_candidates.py) has an identity that is in both hit lists, and so
\* has every record returned by run_candidate_search (new_main.py) unless
\* exactly one hit list is empty: then run_candidate_search returns the hits
\* of the other list, one record per hit in the list's order.
C1_InnerJoin ==
    BothReturned =>
        LET rows == ret[1].rows IN
        IF simpl = "new_main" /\ OneSideEmpty
        THEN LET hits == ext.vec.hits \o ext.sp.hits IN
             /\ Len(rows) = Len(hits)
             /\ \A i \in 1..Len(rows) : rows[i].id = hits[i]._id
        ELSE \A i \in 1..Len(rows) :
                 rows[i].id \in HitIds(ext.vec.hits) \cap HitIds(ext.sp.hits)

\* run_candidate_search joined two hits lists of which only one identity
\* is in both
C1_Witness ==
    /\ simpl = "new_main" /\ ret # <<>>
    /\ HitIds(ext.vec.hits) = {"E1", "E2"}
    /\ HitIds(ext.sp.hits) = {"E2"}
    /\ Len(ret[1].rows) = 1
    /\ ret[1].rows[1].id = "E2"

\* C2 as stated: in the ranked list a search returns, an earlier entry's
\* combined score 0.6*dense + 0.4*sparse is at least a later entry's.
C2_AsStated ==
    BothReturned /\ ext.vec.hits # <<>> /\ ext.sp.hits # <<>> =>
        \A i, j \in 1..Len(ret[1].rows) :
            i < j => Combined(ret[1].rows[i]) >= Combined(ret[1].rows[j])

\* run_search of api.py ranked the candidate of combined score 0.7 before
\* the one of combined score 0.70004
C2_Witness ==
    /\ simpl = "api" /\ ret # <<>>
    /\ ext.vec.hits # <<>> /\ ext.sp.hits # <<>>
    /\ Len(ret[1].rows) = 2
    /\ Combined(ret[1].rows[1]) = 70000
    /\ Combined(ret[1].rows[2]) = 70004

\* POST /candidates/search answered 200 with candidates
Answered200 ==
    /\ simpl = "new_main" /\ resp # <<>> /\ ret # <<>>
    /\ resp[1].status = 200
    /\ ret[1].rows # <<>>

\* reported is exact, given in units of 1/denom, rounded to NDIGITS decimals
RoundedFrom(reported, exact, denom) ==
    LET u == denom \div Pow10(NDIGITS) IN
    /\ reported % u = 0
    /\ 2 * (reported - exact) <= u
    /\ 2 * (exact - reported) <= u

\* C3 as stated: every candidate record a search returns carries a combined
\* score equal to 0.6*dense + 0.4*sparse, a missing score counting as 0,
\* also when one hit list is empty, and the response reports it (to the
\* three decimals the response keeps).
C3_AsStated ==
    Answered200 =>
        \A i \in 1..Len(ret[1].rows) :
            LET row == ret[1].rows[i]
                exact == VEC_WEIGHT * row_get(row, "vec_score", 0)
                         + SP_WEIGHT * row_get(row, "sp_score", 0)
            IN  /\ "combined_score" \in DOMAIN row
                /\ row.combined_score = exact
                /\ RoundedFrom(resp[1].body.candidates[i].combined_score,
                               exact, CombinedDenom)

\* the one candidate found, of dense score 0.9 and found by the dense query
\* alone, was reported with combined_score 0
C3_Witness ==
    /\ Answered200
    /\ ext.vec.hits # <<>> /\ ext.sp.hits = <<>>
    /\ ret[1].rows[1].vec_score = 9000
    /\ resp[1].body.candidates[1].combined_score = 0

\* C7: in a single-job request (POST /candidates/search, POST /match) in
\* which the dense or the sparse similarity query raises, the response is a
\* 5xx failure and never the successful response with zero matches.
C7_AsStated ==
    /\ simpl \in {"new_main", "api"}
    /\ resp # <<>>
    /\ \/ ext.vec.called /\ ~ext.vec.ok
       \/ ext.sp.called /\ ~ext.sp.ok
    => resp[1].status >= 500

\* the dense query raised and POST /candidates/search answered 200
C7_Witness ==
    /\ simpl = "new_main" /\ resp # <<>>
    /\ ext.vec.called /\ ~ext.vec.ok
    /\ resp[1].status = 200

\* C8: when the text-generation call fails during a search
\* (run_candidate_search, run_search of api.py), the search does not fail:
\* the skills are the empty string, the dense query is issued with the job
\* text and, the dense query returning, the sparse query with the empty
\* string.
C8_AsStated ==
    /\ simpl \in {"new_main", "api"}
    /\ ret # <<>>
    /\ ext.gem.called /\ ~ext.gem.ok
    => /\ ~ret[1].raised
       /\ \E i \in 1..Len(ret[1].calls) :
             /\ ret[1].calls[i].svc = "dense"
             /\ ret[1].calls[i].text = JD
       /\ ext.vec.ok =>
             \E i \in 1..Len(ret[1].calls) :
                 /\ ret[1].calls[i].svc = "sparse"
                 /\ ret[1].calls[i].text = <<>>

\* the text-generation call raised in run_search of api.py, which raised
\* in turn without issuing a similarity query
C8_Witness ==
    /\ simpl = "api" /\ ret # <<>>
    /\ ext.gem.called /\ ~ext.gem.ok
    /\ ret[1].raised
    /\ \A i \in 1..Len(ret[1].calls) : ret[1].calls[i].svc = "generate"

(***************************************************************************)
(* Properties of the batch handlers                                        *)
(***************************************************************************)

\* the batch handler has run to its end
BatchOver == bimpl # "none" /\ bpc \in {"done", "aborted"}

\* task k was submitted to the pool
Submitted(k) == k \in 1..Len(task) /\ task[k] # "none"

\* a similarity query of job k's search raised
QueryRaised(k) ==
    /\ Submitted(k) /\ task[k] = "done"
    /\ tout[k].vec = Raises \/ tout[k].sp = Raises

\* an external call of job k's search raised
CallRaised(k) ==
    QueryRaised(k) \/ (Submitted(k) /\ task[k] = "done" /\ tout[k].gem = Raises)

\* the requirement identifier of input job k
RequirementId(k) ==
    IF "id" \in DOMAIN Jobs[k] THEN Jobs[k].id ELSE Jobs[k]["Requirement ID"]

\* the requirement identifier a result entry carries
EntryId(e) ==
    IF "request_id" \in DOMAIN e THEN e.request_id
    ELSE IF "requirementId" \in DOMAIN e THEN e.requirementId
    ELSE e.req_id

\* the candidate identities a result entry carries, in order
EntryCandidateIds(e) ==
    IF "top_candidates" \in DOMAIN e
    THEN [i \in 1..Len(e.top_candidates) |-> e.top_candidates[i].candidate_id]
    ELSE IF "candidates" \in DOMAIN e
    THEN [i \in 1..Len(e.candidates) |-> e.candidates[i].id]
    ELSE IF "df_res" \in DOMAIN e
    THEN [i \in 1..Len(e.df_res) |-> e.df_res[i].id]
    ELSE <<>>

\* the extracted skills a result entry carries
EntrySkills(e) ==
    IF "extracted_skills" \in DOMAIN e THEN e.extracted_skills
    ELSE IF "extractedSkills" \in DOMAIN e THEN e.extractedSkills
    ELSE IF "skills" \in DOMAIN e THEN e.skills
    ELSE <<>>

\* the candidate identities the search of job k found, in order
FoundIds(k) ==
    [i \in 1..Len(tres[k][1].rows) |-> tres[k][1].rows[i].id]

\* the entry shows the candidates the search of job k found (all of them,
\* or the leading ones where the handler truncates)
ShowsFound(e, k) ==
    LET ids == EntryCandidateIds(e)
    IN  /\ Len(ids) <= Len(FoundIds(k))
        /\ \A i \in 1..Len(ids) : ids[i] = FoundIds(k)[i]
        /\ FoundIds(k) # <<>> => ids # <<>>

\* the positions of the result entries that carry job k's identifier
EntriesOf(k) ==
    { i \in 1..Len(results) : EntryId(results[i]) = RequirementId(k) }

\* the entry the handler gives a job whose search succeeded, extracted no
\* skills and matched nobody
ZeroMatchEntry(k) ==
    IF bimpl = "new_main"
    THEN bulk_entry(Jobs[k], Return(<<>>, <<>>, <<>>), Raises)
    ELSE api_bulk_entry(Jobs[k]["Requirement ID"], Return(<<>>, <<>>, <<>>))

\* C4: in a batch over N jobs in which the search of job K raises, the
\* results of every other job are still produced and returned or
\* displayed, with the candidates their own search found; this for
\* match_bulk, bulk_search_candidates and the Streamlit bulk loop, in every
\* completion order.
C4_AsStated ==
    BatchOver =>
        \A k \in 1..Len(task) :
            /\ Submitted(k)
            /\ ~CallRaised(k)
            /\ \E j \in 1..Len(task) : j # k /\ CallRaised(j)
            => \E i \in EntriesOf(k) : ShowsFound(results[i], k)

\* the Streamlit loop stopped at a search that raised, without showing the
\* candidates the search of another job found
C4_Witness ==
    /\ bimpl = "pages" /\ bpc = "aborted"
    /\ \E k \in 1..Len(task) :
          /\ ~CallRaised(k)
          /\ FoundIds(k) # <<>>
          /\ EntriesOf(k) = {}

\* C5: in a batch search (match_bulk, bulk_search_candidates) a job whose
\* search failed has a result entry with its own requirement identifier
\* and an error indicator: the entry differs from the one of a job that
\* succeeded with zero matches.
C5_AsStated ==
    /\ bimpl \in {"new_main", "api"}
    /\ bpc = "done"
    /\ task # <<>>
    => \A k \in 1..Len(task) :
          QueryRaised(k) =>
              \E i \in EntriesOf(k) : results[i] # ZeroMatchEntry(k)

\* match_bulk gave a job whose dense query raised the entry of a job that
\* succeeded with zero matches
C5_Witness ==
    /\ bimpl = "api" /\ bpc = "done"
    /\ \E k \in 1..Len(task) :
          /\ tout[k].vec = Raises
          /\ \E i \in EntriesOf(k) : results[i] = ZeroMatchEntry(k)

\* C6: for every batch request with N jobs (match_bulk,
\* bulk_search_candidates) and every completion order, the final result
\* collection has exactly one entry per input job, and the entry's
\* candidates and extracted skills are those of the search submitted for
\* the job whose identifier it carries.
C6_AsStated ==
    /\ bimpl \in {"new_main", "api"}
    /\ bpc = "done"
    /\ bresp # <<>>
    /\ bresp[1].status = 200
    => /\ Len(results) = Len(Jobs)
       /\ \A k \in 1..Len(Jobs) :
             /\ Cardinality(EntriesOf(k)) = 1
             /\ Submitted(k)
             /\ \A i \in EntriesOf(k) :
                   /\ ShowsFound(results[i], k)
                   /\ EntrySkills(results[i]) = tres[k][1].skills

\* bulk_search_candidates answered 200 with one entry for two input jobs
C6_Witness ==
    /\ bimpl = "new_main" /\ bresp # <<>>
    /\ bresp[1].status = 200
    /\ Len(Jobs) = 2
    /\ Len(results) = 1
    /\ bresp[1].body.total_jobs_processed = 1

\* the uploaded file has an extension match_bulk does not support
UnsupportedFileType ==
    /\ bimpl = "api"
    /\ ~endswith(breq.filename, XLSX)
    /\ ~endswith(breq.filename, XLS)
    /\ ~endswith(breq.filename, CSV)

\* the uploaded file was read and lacks a required column
MissingColumn ==
    /\ bimpl = "api" /\ ~UnsupportedFileType
    /\ breq.readable
    /\ ~(required_cols \subseteq breq.columns)

\* the single search request is not JSON or lacks a required field
InvalidSearchRequest ==
    /\ simpl = "new_main"
    /\ ~sreq.is_json \/ REQUIRED_FIELDS \ DOMAIN sreq.data # {}

\* C11: an input validation error is answered with a 4xx status and
\* without any search being run: an upload to match_bulk with an
\* unsupported extension or without a required column, a request to
\* search_candidates that is not JSON or lacks a required field.
C11_AsStated ==
    /\ (UnsupportedFileType \/ MissingColumn) /\ bresp # <<>>
       => /\ bresp[1].status \in 400..499
          /\ task = <<>>
    /\ InvalidSearchRequest /\ resp # <<>>
       => /\ resp[1].status \in 400..499
          /\ ext = NoCalls

\* match_bulk answered 500 to an upload named j.txt
C11_Witness ==
    /\ UnsupportedFileType
    /\ bresp # <<>>
    /\ bresp[1].status = 500
    /\ task = <<>>

\* C12: whenever a request of new_main.py that downloads the candidate
\* spreadsheet to a temporary file (search_candidates,
\* bulk_search_candidates, get_candidate_stats) has returned, the temporary
\* file no longer exists, also when the download or a later step raised.
C12_AsStated ==
    /\ simpl \in {"new_main", "new_main_stats"} /\ resp # <<>> => ~tmp_file
    /\ bimpl = "new_main" /\ bresp # <<>> => ~btmp

\* the download raised in search_candidates, which answered 500 and left
\* the temporary file behind
C12_Witness ==
    /\ simpl = "new_main" /\ resp # <<>>
    /\ ext.dl.called /\ ~ext.dl.ok
    /\ resp[1].status = 500
    /\ tmp_file

CallCount(calls, svc) ==
    Cardinality({ i \in 1..Len(calls) : calls[i].svc = svc })

IssuedAtMostOnce(calls) ==
    \A svc \in {"generate", "dense", "sparse"} : CallCount(calls, svc) <= 1

\* C14: during one search each external call (text generation, dense
\* query, sparse query) is issued at most once, also when it fails, in
\* run_candidate_search, in run_search and in the searches the batch
\* handlers run, one per submitted job.
C14_CallsOnce ==
    /\ ret # <<>> => IssuedAtMostOnce(ret[1].calls)
    /\ \A k \in 1..Len(tres) :
          tres[k] # <<>> => IssuedAtMostOnce(tres[k][1].calls)

\* the dense query raised in run_candidate_search, which had issued it
\* once, after one text-generation call
C14_Witness ==
    /\ simpl = "new_main" /\ ret # <<>>
    /\ ext.vec.called /\ ~ext.vec.ok
    /\ CallCount(ret[1].calls, "generate") = 1
    /\ CallCount(ret[1].calls, "dense") = 1
    /\ CallCount(ret[1].calls, "sparse") = 0

(***************************************************************************)
(* Properties of the upload of candidate profiles                          *)
(***************************************************************************)
\* the calls made on an index for the candidate of row k
UpsertsOf(ups, k) == SelectSeq(ups, LAMBDA c : c.id = EmpIds[k])

\* C15: for every row upsert_candidate was called for, the skills text is
\* upserted into the sparse namespace exactly once, whatever the dense
\* step did (resume missing, no section, extraction raising, dense upsert
\* raising), and the dense namespace is upserted for the row only when a
\* non-empty project-experience section was extracted.
C15_AsStated ==
    \A k \in 1..upos :
        /\ Len(UpsertsOf(sparse_ups, k)) = 1
        /\ UpsertsOf(sparse_ups, k)[1].namespace = NAMESPACE_SPARSE
        /\ UpsertsOf(sparse_ups, k)[1].text = urows[k].skills
        /\ UpsertsOf(vector_ups, k) # <<>> =>
              /\ urows[k].pdf.readable
              /\ extract_project_experience(urows[k].pdf) # <<>>

\* the dense upsert raised for the first row, whose skills were then never
\* written, and the run ended
C15_Witness ==
    /\ upos = 1
    /\ upc = "aborted"
    /\ Len(vector_ups) = 1
    /\ vector_ups[1].text = <<"built", SPACE, "search">>
    /\ sparse_ups = <<>>

\* the hit of a list that has identity id (a list holds an identity once)
HitOf(hits, id) == hits[CHOOSE i \in 1..Len(hits) : hits[i]._id = id]

\* C16: when both hit lists are non-empty, an identity present in both
\* yields a merged candidate if and only if its dense hit and its sparse
\* hit have equal location and equal experience.
C16_JoinOnMetadata ==
    \A r \in 1..Len(mruns) :
        mhits[1] # <<>> /\ mhits[2] # <<>> =>
            \A id \in HitIds(mhits[1]) \cap HitIds(mhits[2]) :
                (\E i \in 1..Len(mruns[r]) : mruns[r][i].id = id)
                <=> /\ HitOf(mhits[1], id).fields.location
                          = HitOf(mhits[2], id).fields.location
                    /\ HitOf(mhits[1], id).fields.experience
                          = HitOf(mhits[2], id).fields.experience

\* E1 and E2 are in both lists; E1's hits differ in experience and E1 is
\* not in the output of the merge, E2's agree and E2 is
C16_Witness ==
    /\ mimpl = "new_main" /\ Len(mruns) >= 1
    /\ HitIds(mhits[1]) = {"E1", "E2"}
    /\ HitIds(mhits[2]) = {"E1", "E2"}
    /\ HitOf(mhits[2], "E1").fields.experience = 4
    /\ HitOf(mhits[2], "E2").fields = HitOf(mhits[1], "E2").fields
    /\ Len(mruns[1]) = 1
    /\ mruns[1][1].id = "E2"

\* C17: in the ranked list run_candidate_search returns, of two merged
\* candidates of equal combined score the one of higher dense score comes
\* first, and of two also equal in dense score the one of higher sparse
\* score.
C17_AsStated ==
    /\ simpl = "new_main" /\ ret # <<>>
    /\ ext.vec.hits # <<>> /\ ext.sp.hits # <<>>
    => \A i, j \in 1..Len(ret[1].rows) :
          i < j /\ Combined(ret[1].rows[i]) = Combined(ret[1].rows[j]) =>
              \/ ret[1].rows[i].vec_score > ret[1].rows[j].vec_score
              \/ /\ ret[1].rows[i].vec_score = ret[1].rows[j].vec_score
                 /\ ret[1].rows[i].sp_score >= ret[1].rows[j].sp_score

\* run_candidate_search returned two candidates of combined score 0.7, the
\* one of dense score 0.7 before the one of dense score 0.9
C17_Witness ==
    /\ simpl = "new_main" /\ ret # <<>>
    /\ ext.vec.hits # <<>> /\ ext.sp.hits # <<>>
    /\ Len(ret[1].rows) = 2
    /\ ret[1].rows[1].combined_score = 70000
    /\ ret[1].rows[2].combined_score = 70000
    /\ ret[1].rows[1].vec_score = 7000
    /\ ret[1].rows[2].vec_score = 9000

\* the worker cap of the batch handler that runs
WorkerCap ==
    IF bimpl = "new_main" THEN NEW_MAIN_MAX_WORKERS
    ELSE IF bimpl = "api" THEN API_MAX_WORKERS
    ELSE PAGES_MAX_WORKERS

\* no more searches run at once than the cap and than there are jobs
WithinCap ==
    /\ Cardinality(Running) <= WorkerCap
    /\ Cardinality(Running) <= Len(Jobs)

\* once the pool exists, every job has its one task
OneTaskPerJob ==
    pool > 0 => /\ Len(task) = Len(Jobs)
                /\ \A k \in 1..Len(Jobs) : task[k] # "none"

\* the search of task k has run to its end
Completed(k) == k \in 1..Len(task) /\ task[k] = "done"

\* C18: in every state of a batch search (match_bulk,
\* bulk_search_candidates) at most as many searches run at once as the
\* worker cap and as there are jobs, exactly one task is submitted per job,
\* and every submitted task eventually runs to completion.
C18_AsStated ==
    /\ [](bimpl \in {"new_main", "api"} => WithinCap /\ OneTaskPerJob)
    /\ \A k \in 1..NumJobs :
          [](bimpl \in {"new_main", "api"} /\ Submitted(k)
                => <>Completed(k))

\* bulk_search_candidates created the pool for two jobs and submitted a
\* task for one of them only
C18_Witness ==
    /\ bimpl = "new_main"
    /\ pool > 0
    /\ Len(Jobs) = 2
    /\ \E k \in 1..2 : task[k] = "none"
    /\ \E k \in 1..2 : task[k] # "none"

(***************************************************************************)
(* The experience bands of the filters                                     *)
(***************************************************************************)
\* the largest number of years of experience looked at
MaxYears == 8

\* x satisfies every comparison of the experience constraint bound
Matches(bound, x) ==
    \A op \in DOMAIN bound :
        CASE op = "$lte" -> x <= bound[op]
          [] op = "$lt"  -> x < bound[op]
          [] op = "$gte" -> x >= bound[op]
          [] op = "$gt"  -> x > bound[op]
          [] op = "$eq"  -> x = bound[op]

\* a candidate of x years passes the filter f
InBand(f, x) == "experience" \in DOMAIN f => Matches(f["experience"], x)

\* the filters the build_filter that ran gives for junior, mid and senior
Bands ==
    LET f(lev) == IF fimpl = "new_main" THEN build_filter(location, lev)
                  ELSE IF fimpl = "api" THEN api_build_filter(location, lev)
                  ELSE pages_build_filter(location, lev)
    IN  <<f(W_junior), f(W_mid), f(W_senior)>>

\* C19: for each build_filter (new_main.py; api.py and
\* Search_candidates.py) the experience predicates of the labels junior,
\* mid and senior partition the non-negative integers: every number of
\* years satisfies exactly one of the three.
C19_AsStated ==
    fimpl # "none" =>
        \A x \in 0..MaxYears :
            Cardinality({ b \in 1..3 : InBand(Bands[b], x) }) = 1

\* build_filter of api.py ran, and a candidate of 3 years passes none of
\* its filters for junior, mid and senior
C19_Witness ==
    /\ fimpl = "api"
    /\ filt[1] = api_build_filter(location, level)
    /\ \A b \in 1..3 : ~InBand(Bands[b], 3)

(***************************************************************************)
(* The candidate lists of new_main.py                                      *)
(***************************************************************************)
\* the spreadsheet rows the handler read, none if the read failed
SheetRead == IF ext.xl.called /\ ext.xl.ok THEN ext.xl.hits ELSE <<>>

NamesOf(id) ==
    { SheetRead[j].Name :
          j \in { j \in 1..Len(SheetRead) : SheetRead[j].EmployeeID = id } }

\* cands is the first n rows of the ranked frame rows, one entry per row in
\* the frame's order, each with its name from the spreadsheet or 'N/A'
PrefixInOrder(cands, rows, n) ==
    /\ Len(cands) = Min(Len(rows), n)
    /\ \A i \in 1..Len(cands) :
          /\ cands[i].candidate_id = rows[i].id
          /\ cands[i].combined_score =
                 round(rows[i].combined_score, CombinedDenom)
          /\ IF NamesOf(rows[i].id) = {}
             THEN cands[i].name = "N/A"
             ELSE cands[i].name \in NamesOf(rows[i].id)

\* C20: in new_main.py the candidate list of a response is an
\* order-preserving prefix of the ranked search result: the first 20 rows
\* for search_candidates and the first 10 rows for bulk_search_candidates,
\* one entry per row in the same order; the enrichment from the spreadsheet
\* drops, repeats and reorders nothing, and a candidate the spreadsheet
\* does not hold is returned with name 'N/A'.
C20_PrefixInOrder ==
    /\ simpl = "new_main" /\ resp[1].status = 200 =>
           PrefixInOrder(resp[1].body.candidates, ret[1].rows, 20)
    /\ simpl = "new_main_bulk" =>
           PrefixInOrder(results[1].top_candidates, ret[1].rows, 10)

\* search_candidates answered a ranked result of more than 20 rows from a
\* spreadsheet that holds some of its candidates and not others
C20_Witness ==
    /\ simpl = "new_main"
    /\ resp[1].status = 200
    /\ Len(ret[1].rows) > 20
    /\ Len(resp[1].body.candidates) = 20
    /\ \E i, j \in 1..20 :
          /\ resp[1].body.candidates[i].name = "N/A"
          /\ resp[1].body.candidates[j].name # "N/A"

(***************************************************************************)
(* The match count of new_main.py                                          *)
(***************************************************************************)
\* C21: in every successful response of new_main.py that reports a match
\* count (search_candidates, and each entry of bulk_search_candidates),
\* matches_found equals the number of candidate entries the same response
\* carries (candidates / top_candidates).
C21_AsStated ==
    /\ simpl = "new_main" /\ resp[1].status = 200 =>
           resp[1].body.matches_found = Len(resp[1].body.candidates)
    /\ simpl = "new_main_bulk" =>
           results[1].matches_found = Len(results[1].top_candidates)

\* search_candidates answered 200 with a match count above the number of
\* candidates the response carries
C21_Witness ==
    /\ simpl = "new_main"
    /\ resp[1].status = 200
    /\ resp[1].body.matches_found = Len(ret[1].rows)
    /\ resp[1].body.matches_found > Len(resp[1].body.candidates)

(***************************************************************************)
(* A batch file without job rows                                           *)
(***************************************************************************)
\* the uploaded file is of a supported type and was read, holds the
\* required columns and has no rows
ZeroJobRows ==
    /\ bimpl \in {"api", "pages"}
    /\ \/ endswith(breq.filename, XLSX)
       \/ endswith(breq.filename, XLS)
       \/ bimpl = "api" /\ endswith(breq.filename, CSV)
    /\ breq.readable
    /\ required_cols \subseteq breq.columns
    /\ breq.df_jobs = <<>>

\* C22: a bulk request whose well-formed input holds zero job rows (a file
\* with the required columns and no rows, for match_bulk of api.py and the
\* bulk loop of Search_candidates.py) completes successfully with an empty
\* result collection: the worker pool is not created with zero workers and
\* no error is raised.
C22_AsStated ==
    ZeroJobRows =>
        /\ bpc # "aborted"
        /\ bresp # <<>> => bresp[1].status = 200 /\ results = <<>>

\* match_bulk answered 500 to a readable .xlsx file that holds the required
\* columns and no rows; no task was submitted
C22_Witness ==
    /\ ZeroJobRows
    /\ bimpl = "api"
    /\ bresp # <<>>
    /\ bresp[1].status = 500
    /\ task = <<>>

====
